---- MODULE Spec2Model ----
(***************************************************************************)
(* Model of train.py: a job of `world` processes, each running main().     *)
(* A process walks through main() statement by statement; the statements   *)
(* that synchronise with the peers (the rendezvous of init_process_group,  *)
(* the construction of DistributedDataParallel, the gradient all-reduce    *)
(* in loss.backward()) are collectives: a process enters its k-th          *)
(* collective and leaves it only once every process of the job has         *)
(* entered its k-th collective too.  A collective a peer never enters      *)
(* stays blocked: the library's watchdog timeouts are not part of the      *)
(* model.                                                                  *)
(***************************************************************************)
EXTENDS Integers, Sequences, FiniteSets

VARIABLES world, args, env, proc, files, saves

vars == <<world, args, env, proc, files, saves>>

----------------------------------------------------------------------------
(* Bounds of the model *)

MaxWorld == 2

MaxEpochs == 3

MaxSaveEvery == 3

MinBatch == 600

(* Program constants *)

DatasetSize == 2048

DefaultTotalEpochs == 10

DefaultSaveEvery == 5

DefaultBatchSize == 32

PATH == "checkpoint.pt"

NoFile == [epoch |-> -1, steps |-> -1]

----------------------------------------------------------------------------
(* The command line and the environment *)

TotalEpochsArgs == (-1)..MaxEpochs

SaveEveryArgs == (-1)..MaxSaveEvery

BatchSizeArgs == {0, MinBatch, 4 * MinBatch}

\* the values argparse gives the options that are not on the command line
DefaultArgs ==
    [total_epochs |-> DefaultTotalEpochs, save_every |-> DefaultSaveEvery,
     batch_size |-> DefaultBatchSize]

\* the command lines of the model: the defaults, or all three options given
CommandLines ==
    {DefaultArgs} \cup
    [total_epochs : TotalEpochsArgs, save_every : SaveEveryArgs,
     batch_size : BatchSizeArgs]

\* the variables main reads; SLURMD_NODENAME is read with
\* os.environ.get(name, None), for which a missing name is no error
EnvVars ==
    {"SLURMD_NODENAME", "LOCAL_RANK", "LOCAL_WORLD_SIZE", "RANK",
     "WORLD_SIZE", "MASTER_ADDR", "MASTER_PORT"}

\* a mutant: the node name read with os.environ[...] like the others
RequiredEnvWithNodeName == EnvVars

\* os.environ[name]: a missing name raises KeyError
RequiredEnv ==
    {"LOCAL_RANK", "LOCAL_WORLD_SIZE", "RANK", "WORLD_SIZE", "MASTER_ADDR",
     "MASTER_PORT"}

\* the environments of a process: complete, or with one variable unset
Environments == {EnvVars} \cup {EnvVars \ {v} : v \in EnvVars}

Ranks == 0..(world - 1)

\* int(os.environ["RANK"]): the launcher numbers the processes 0..world-1
rank(p) == p

----------------------------------------------------------------------------
(* Arithmetic of the interpreter and of the data pipeline *)

Min(a, b) == IF a <= b THEN a ELSE b

CeilDiv(a, b) == (a + b - 1) \div b

\* Python's a % b for b # 0: the result has the sign of b
PyMod(a, b) == IF b > 0 THEN a % b ELSE 0 - ((0 - a) % (0 - b))

\* DistributedSampler: the index list is padded to a multiple of the world
\* size and rank r takes the indices r, r + W, r + 2W, ...
SamplerTotalSize(n, w) == CeilDiv(n, w) * w

SamplerNumSamples(n, w, r) ==
    Cardinality({i \in 0..(SamplerTotalSize(n, w) - 1) : i % w = r})

\* a mutant: set_epoch forgotten, the sampler keeps its epoch
SetEpochForgotten(sampler_epoch, epoch) == sampler_epoch

\* sampler.set_epoch(epoch)
SetEpoch(sampler_epoch, epoch) == epoch

----------------------------------------------------------------------------
(* Trainer.train, line 75: `self.rank == 0 and epoch % self.save_every == 0` *)

\* a mutant: the rank test inverted
SaveConditionOtherRanks(r, epoch, save_every) ==
    IF r = 0 THEN "skip"
    ELSE IF save_every = 0 THEN "raise"
    ELSE IF PyMod(epoch, save_every) = 0 THEN "save" ELSE "skip"

\* a mutant: the rank test dropped
SaveConditionAnyRank(r, epoch, save_every) ==
    IF save_every = 0 THEN "raise"
    ELSE IF PyMod(epoch, save_every) = 0 THEN "save" ELSE "skip"

\* a mutant: the save at the last epoch of each period instead of the first
SaveConditionEndOfPeriod(r, epoch, save_every) ==
    IF r # 0 THEN "skip"
    ELSE IF save_every = 0 THEN "raise"
    ELSE IF PyMod(epoch + 1, save_every) = 0 THEN "save" ELSE "skip"

\* a mutant: the modulo evaluated before the rank test
SaveConditionModuloFirst(r, epoch, save_every) ==
    IF save_every = 0 THEN "raise"
    ELSE IF r = 0 /\ PyMod(epoch, save_every) = 0 THEN "save" ELSE "skip"

\* `and` short-circuits: the modulo is evaluated on rank 0 only
SaveCondition(r, epoch, save_every) ==
    IF r # 0 THEN "skip"
    ELSE IF save_every = 0 THEN "raise"
    ELSE IF PyMod(epoch, save_every) = 0 THEN "save" ELSE "skip"

\* a mutant: the first checkpoint is kept, later saves do not replace it
TorchSaveKeepFirst(fs, path, ckp) == IF fs = NoFile THEN ckp ELSE fs

\* torch.save(ckp, PATH): the file at PATH is replaced
TorchSave(fs, path, ckp) == ckp

----------------------------------------------------------------------------
(* The statements of main, in order *)

\* a mutant: the process group destroyed before training
MainOrderDestroyFirst ==
    <<"print", "init", "load", "construct", "destroy", "train", "done">>

MainOrder ==
    <<"print", "init", "load", "construct", "train", "destroy", "done">>

NextStmt(s) ==
    LET i == CHOOSE k \in 1..(Len(MainOrder) - 1) : MainOrder[k] = s
    IN  MainOrder[i + 1]

----------------------------------------------------------------------------
(* State *)

NewProcess ==
    [pc |-> "print", err |-> "none", failedAt |-> "none",
     inited |-> 0, destroyed |-> 0, objs |-> FALSE, wrapped |-> FALSE,
     returned |-> FALSE,
     entered |-> 0, numSamples |-> 0,
     epoch |-> -1, batch |-> 0, steps |-> 0,
     samplerEpoch |-> 0, setCalls |-> 0,
     peekEpoch |-> -1, peekSets |-> -1,
     iterEpoch |-> -1, iterSets |-> -1, iterLeft |-> 0,
     epochsRun |-> << >>]

Init ==
    /\ world \in 1..MaxWorld
    /\ args \in CommandLines
    /\ env \in [0..(world - 1) -> Environments]
    /\ proc = [p \in 0..(world - 1) |-> NewProcess]
    /\ files = NoFile
    /\ saves = << >>

\* an exception leaves main: nothing after the raising statement runs
Raise(p, e) ==
    proc' = [proc EXCEPT ![p].pc = "failed", ![p].err = e,
                         ![p].failedAt = proc[p].pc]

\* every process of the job has entered the collective p is waiting in
AllEntered(p) == \A q \in Ranks : proc[q].entered >= proc[p].entered

----------------------------------------------------------------------------
(* main *)

\* the print of the worker info: its arguments are evaluated first, and
\* os.environ[name] raises KeyError for a name that is not set
PrintWorkerInfo(p) ==
    /\ proc[p].pc = "print"
    /\ IF RequiredEnv \subseteq env[p]
       THEN proc' = [proc EXCEPT ![p].pc = NextStmt("print")]
       ELSE Raise(p, "KeyError")
    /\ UNCHANGED <<world, args, env, files, saves>>

\* init_process_group(backend="nccl"): the process joins the rendezvous
InitProcessGroup(p) ==
    /\ proc[p].pc = "init"
    /\ proc' = [proc EXCEPT ![p].pc = "init_wait",
                            ![p].inited = @ + 1,
                            ![p].entered = @ + 1]
    /\ UNCHANGED <<world, args, env, files, saves>>

\* the rendezvous completes once every process of the job has joined
InitProcessGroupReturns(p) ==
    /\ proc[p].pc = "init_wait"
    /\ AllEntered(p)
    /\ proc' = [proc EXCEPT ![p].pc = NextStmt("init")]
    /\ UNCHANGED <<world, args, env, files, saves>>

\* load_train_objs() and prepare_dataloader(dataset, args.batch_size): the
\* sampler is built for this rank; DataLoader rejects a batch size <= 0
LoadTrainObjs(p) ==
    /\ proc[p].pc = "load"
    /\ IF args.batch_size <= 0
       THEN proc' = [proc EXCEPT ![p].pc = "failed",
                                 ![p].err = "ValueError",
                                 ![p].failedAt = "load",
                                 ![p].objs = TRUE]
       ELSE proc' = [proc EXCEPT
                        ![p].pc = NextStmt("load"),
                        ![p].objs = TRUE,
                        ![p].numSamples =
                            SamplerNumSamples(DatasetSize, world, rank(p))]
    /\ UNCHANGED <<world, args, env, files, saves>>

\* Trainer.__init__: the model is wrapped in DistributedDataParallel, whose
\* constructor synchronises the parameters across the job
TrainerInit(p) ==
    /\ proc[p].pc = "construct"
    /\ proc' = [proc EXCEPT ![p].pc = "ddp_wait",
                            ![p].wrapped = TRUE,
                            ![p].entered = @ + 1]
    /\ UNCHANGED <<world, args, env, files, saves>>

TrainerInitReturns(p) ==
    /\ proc[p].pc = "ddp_wait"
    /\ AllEntered(p)
    /\ proc' = [proc EXCEPT ![p].pc = NextStmt("construct")]
    /\ UNCHANGED <<world, args, env, files, saves>>

\* destroy_process_group()
DestroyProcessGroup(p) ==
    /\ proc[p].pc = "destroy"
    /\ proc' = [proc EXCEPT ![p].pc = NextStmt("destroy"),
                            ![p].destroyed = @ + 1]
    /\ UNCHANGED <<world, args, env, files, saves>>

----------------------------------------------------------------------------
(* Trainer *)

\* train: `for epoch in range(max_epochs)`, the next epoch or the return
TrainLoop(p) ==
    /\ proc[p].pc = "train"
    /\ IF proc[p].epoch + 1 < args.total_epochs
       THEN proc' = [proc EXCEPT ![p].pc = "peek", ![p].epoch = @ + 1]
       ELSE proc' = [proc EXCEPT ![p].pc = NextStmt("train"),
                                 ![p].returned = TRUE]
    /\ UNCHANGED <<world, args, env, files, saves>>

\* _run_epoch: next(iter(self.train_data)), an iterator of its own that is
\* dropped after its first batch, and the print on rank 0
PeekBatchSize(p) ==
    /\ proc[p].pc = "peek"
    /\ proc' = [proc EXCEPT ![p].pc = "set_epoch",
                            ![p].peekEpoch = proc[p].samplerEpoch,
                            ![p].peekSets = proc[p].setCalls]
    /\ UNCHANGED <<world, args, env, files, saves>>

\* _run_epoch: self.train_data.sampler.set_epoch(epoch)
SamplerSetEpoch(p) ==
    /\ proc[p].pc = "set_epoch"
    /\ proc' = [proc EXCEPT ![p].pc = "iter",
                            ![p].samplerEpoch = SetEpoch(@, proc[p].epoch),
                            ![p].setCalls = @ + 1]
    /\ UNCHANGED <<world, args, env, files, saves>>

\* _run_epoch: `for source, targets in self.train_data` creates the
\* iterator of the epoch, which reads the sampler's epoch
IterTrainData(p) ==
    /\ proc[p].pc = "iter"
    /\ proc' = [proc EXCEPT ![p].pc = "next",
                            ![p].iterEpoch = proc[p].samplerEpoch,
                            ![p].iterSets = proc[p].setCalls,
                            ![p].iterLeft = proc[p].numSamples,
                            ![p].batch = 0]
    /\ UNCHANGED <<world, args, env, files, saves>>

\* the next batch of the iterator (at most batch_size samples, the last one
\* may be shorter) goes to _run_batch, which runs up to the gradient
\* all-reduce of loss.backward(); or the iterator is exhausted and
\* _run_epoch returns
NextBatch(p) ==
    /\ proc[p].pc = "next"
    /\ IF proc[p].iterLeft > 0
       THEN proc' = [proc EXCEPT
                        ![p].pc = "batch_wait",
                        ![p].iterLeft = @ - Min(args.batch_size, @),
                        ![p].entered = @ + 1]
       ELSE proc' = [proc EXCEPT
                        ![p].pc = "check",
                        ![p].epochsRun =
                            Append(@, [epoch |-> proc[p].epoch,
                                       batches |-> proc[p].batch])]
    /\ UNCHANGED <<world, args, env, files, saves>>

\* _run_batch: the all-reduce completes once every rank has entered it, and
\* optimizer.step() applies the averaged gradient
RunBatchReturns(p) ==
    /\ proc[p].pc = "batch_wait"
    /\ AllEntered(p)
    /\ proc' = [proc EXCEPT ![p].pc = "next",
                            ![p].batch = @ + 1,
                            ![p].steps = @ + 1]
    /\ UNCHANGED <<world, args, env, files, saves>>

\* train: the test that follows _run_epoch
CheckSave(p) ==
    /\ proc[p].pc = "check"
    /\ LET c == SaveCondition(rank(p), proc[p].epoch, args.save_every)
       IN  IF c = "raise" THEN Raise(p, "ZeroDivisionError")
           ELSE IF c = "save" THEN proc' = [proc EXCEPT ![p].pc = "save"]
           ELSE proc' = [proc EXCEPT ![p].pc = "train"]
    /\ UNCHANGED <<world, args, env, files, saves>>

\* _save_checkpoint: the assertion, then the state of the model is written
SaveCheckpoint(p) ==
    /\ proc[p].pc = "save"
    /\ IF rank(p) # 0
       THEN /\ Raise(p, "AssertionError")
            /\ UNCHANGED <<files, saves>>
       ELSE /\ proc' = [proc EXCEPT ![p].pc = "train"]
            /\ files' = TorchSave(files, PATH,
                                  [epoch |-> proc[p].epoch,
                                   steps |-> proc[p].steps])
            /\ saves' = Append(saves, [rank |-> rank(p),
                                       epoch |-> proc[p].epoch,
                                       steps |-> proc[p].steps,
                                       path |-> PATH])
    /\ UNCHANGED <<world, args, env>>

----------------------------------------------------------------------------

Next ==
    \/ \E p \in Ranks : PrintWorkerInfo(p)
    \/ \E p \in Ranks : InitProcessGroup(p)
    \/ \E p \in Ranks : InitProcessGroupReturns(p)
    \/ \E p \in Ranks : LoadTrainObjs(p)
    \/ \E p \in Ranks : TrainerInit(p)
    \/ \E p \in Ranks : TrainerInitReturns(p)
    \/ \E p \in Ranks : TrainLoop(p)
    \/ \E p \in Ranks : PeekBatchSize(p)
    \/ \E p \in Ranks : SamplerSetEpoch(p)
    \/ \E p \in Ranks : IterTrainData(p)
    \/ \E p \in Ranks : NextBatch(p)
    \/ \E p \in Ranks : RunBatchReturns(p)
    \/ \E p \in Ranks : CheckSave(p)
    \/ \E p \in Ranks : SaveCheckpoint(p)
    \/ \E p \in Ranks : DestroyProcessGroup(p)

Spec == Init /\ [][Next]_vars

----------------------------------------------------------------------------
(* Notions the properties are stated in *)

\* the environment variables the worker info reads with os.environ[...]
MandatoryVariables ==
    {"LOCAL_RANK", "LOCAL_WORLD_SIZE", "RANK", "WORLD_SIZE", "MASTER_ADDR",
     "MASTER_PORT"}

\* len(train_data) as the documentation of the data pipeline gives it
LenTrainData == CeilDiv(CeilDiv(DatasetSize, world), args.batch_size)

\* the positions of a process inside Trainer.train
InTrain ==
    {"train", "peek", "set_epoch", "iter", "next", "batch_wait", "check",
     "save"}

\* the batch steps of the first n epochs a process has run
RECURSIVE BatchesOf(_, _)
BatchesOf(run, n) ==
    IF n = 0 THEN 0 ELSE BatchesOf(run, n - 1) + run[n].batches

\* the epochs 0, 1, ..., n - 1 in order
EpochsUpTo(n) == [i \in 1..n |-> i - 1]

EpochsOf(run) == [i \in 1..Len(run) |-> run[i].epoch]

\* rank 0 has finished epoch e, its test and its save included
Settled(e) ==
    \/ e < proc[0].epoch
    \/ e = proc[0].epoch /\ proc[0].pc \in {"train", "destroy", "done"}

SavedAt(e) == \E i \in 1..Len(saves) : saves[i].epoch = e

----------------------------------------------------------------------------
(* Properties *)

\* C1: only the process of rank 0 enters _save_checkpoint and writes
\* checkpoint.pt; no process of another rank writes a checkpoint, in any
\* epoch, whatever the number of processes.
C1_OnlyRankZeroCheckpoints ==
    /\ \A p \in Ranks : proc[p].pc = "save" => rank(p) = 0
    /\ \A i \in 1..Len(saves) : saves[i].rank = 0

\* two checkpoints are written while a process of another rank has run the
\* same epochs without entering _save_checkpoint
C1_Witness ==
    /\ world >= 2
    /\ Len(saves) >= 2
    /\ \E p \in Ranks \ {0} :
          /\ Len(proc[p].epochsRun) >= 2
          /\ proc[p].pc = "done"

\* C2: for save_every >= 1, rank 0 saves at the end of epoch e exactly when
\* e % save_every = 0, once, after all the batches of the epochs 0..e and
\* before any batch of epoch e + 1.
C2_SaveEverySchedule ==
    args.save_every >= 1 =>
        /\ \A e \in 0..(args.total_epochs - 1) :
              Settled(e) => (SavedAt(e) <=> e % args.save_every = 0)
        /\ \A i \in 1..Len(saves) :
              /\ saves[i].epoch % args.save_every = 0
              /\ Len(proc[0].epochsRun) > saves[i].epoch
              /\ saves[i].steps =
                     BatchesOf(proc[0].epochsRun, saves[i].epoch + 1)
              /\ \A j \in 1..Len(saves) :
                    i < j => saves[i].epoch < saves[j].epoch

\* with save_every = 2, three epochs have run: epochs 0 and 2 are saved,
\* epoch 1 is not
C2_Witness ==
    /\ args.save_every = 2
    /\ proc[0].pc = "done"
    /\ SavedAt(0) /\ ~SavedAt(1) /\ SavedAt(2)

\* C4: the assertion `self.rank == 0` of _save_checkpoint never fails, for
\* any rank, any number of epochs and any save_every.
C4_AssertionNeverFails ==
    \A p \in Ranks : proc[p].err # "AssertionError"

\* rank 0 has passed the assertion while a process of another rank has
\* finished an epoch at which rank 0 saves
C4_Witness ==
    /\ Len(saves) >= 1
    /\ \E p \in Ranks \ {0} :
          /\ proc[p].pc = "train"
          /\ proc[p].epoch >= 0
          /\ PyMod(proc[p].epoch, args.save_every) = 0

\* C5: every batch that _run_batch gets in epoch e comes from an iterator
\* created after set_epoch(e) and before set_epoch(e + 1), with the
\* sampler's epoch equal to e.
C5_SetEpochBeforeBatches ==
    \A p \in Ranks :
        proc[p].pc = "batch_wait" =>
            /\ proc[p].iterSets = proc[p].epoch + 1
            /\ proc[p].iterEpoch = proc[p].epoch

\* a batch of epoch 2 is in _run_batch; the iterator of the batch-size peek
\* of that epoch was made before set_epoch(2)
C5_Witness ==
    \E p \in Ranks :
        /\ proc[p].pc = "batch_wait"
        /\ proc[p].epoch = 2
        /\ proc[p].peekSets = 2
        /\ proc[p].peekEpoch = 1

\* C6: on every process init_process_group is called before the model is
\* wrapped and before any batch; destroy_process_group is called at most
\* once, only after train has returned, and exactly once when main ends
\* normally; no batch step and no checkpoint happens before the
\* initialisation or after the destruction; a process whose main raised has
\* not called destroy_process_group.
C6_MainOrder ==
    /\ [](\A p \in Ranks :
            /\ proc[p].inited <= 1
            /\ proc[p].destroyed <= 1
            /\ (proc[p].wrapped \/ proc[p].steps > 0 \/ proc[p].entered > 1)
                  => (proc[p].inited = 1 /\ proc[p].pc # "init_wait")
            /\ proc[p].destroyed = 1 => proc[p].returned
            /\ proc[p].pc = "done" => proc[p].destroyed = 1
            /\ proc[p].err # "none" => proc[p].destroyed = 0)
    /\ [][\A p \in Ranks :
            /\ (proc[p].inited = 0 \/ proc[p].destroyed >= 1) =>
                  /\ proc'[p].steps = proc[p].steps
                  /\ proc'[p].pc # "batch_wait"
            /\ (proc'[p].pc = "batch_wait" /\ proc[p].pc # "batch_wait") =>
                  (proc[p].inited = 1 /\ proc[p].wrapped)
            /\ (saves' # saves /\ rank(p) = saves'[Len(saves')].rank) =>
                  (proc[p].inited = 1 /\ proc[p].destroyed = 0)]_vars

\* two processes have trained, rank 0 has saved, and both have destroyed
\* the process group after train returned
C6_Witness ==
    /\ world >= 2
    /\ Len(saves) >= 1
    /\ \A p \in Ranks :
          /\ proc[p].pc = "done"
          /\ proc[p].steps >= 2
          /\ proc[p].destroyed = 1

\* C7: a process with one of LOCAL_RANK, LOCAL_WORLD_SIZE, RANK,
\* WORLD_SIZE, MASTER_ADDR, MASTER_PORT unset fails with KeyError in the
\* print of the worker info, before init_process_group and before any
\* dataset, model or checkpoint; an unset SLURMD_NODENAME alone is no
\* error and the process goes on to init_process_group.
C7_EnvironmentReading ==
    \A p \in Ranks :
        IF MandatoryVariables \subseteq env[p]
        THEN /\ proc[p].err # "KeyError"
             /\ proc[p].failedAt # "print"
             /\ proc[p].pc \in {"print", "init"} \/ proc[p].inited = 1
        ELSE /\ proc[p].pc \in {"print", "failed"}
             /\ proc[p].pc = "failed" =>
                   (proc[p].err = "KeyError" /\ proc[p].failedAt = "print")
             /\ proc[p].inited = 0
             /\ proc[p].entered = 0
             /\ ~proc[p].objs
             /\ ~proc[p].wrapped
             /\ \A i \in 1..Len(saves) : saves[i].rank # rank(p)

\* one process without SLURMD_NODENAME has called init_process_group, one
\* without MASTER_PORT has failed in the print
C7_Witness ==
    \E p, q \in Ranks :
        /\ env[p] = EnvVars \ {"SLURMD_NODENAME"}
        /\ proc[p].inited = 1
        /\ env[q] = EnvVars \ {"MASTER_PORT"}
        /\ proc[q].pc = "failed"
        /\ proc[q].err = "KeyError"

\* C9: with save_every = 0 and max_epochs >= 1, rank 0 runs the batches of
\* epoch 0 and then fails with ZeroDivisionError in the test of train; it
\* writes no checkpoint and does not call destroy_process_group.  The other
\* ranks never evaluate the modulo and go on to epoch 1, where no batch
\* step of theirs completes, because rank 0 never joins it.
C9_SaveEveryZero ==
    (args.save_every = 0 /\ args.total_epochs >= 1) =>
        /\ saves = << >>
        /\ files = NoFile
        /\ proc[0].destroyed = 0
        /\ proc[0].epoch <= 0
        /\ proc[0].pc \notin {"save", "destroy", "done"}
        /\ ~proc[0].returned
        /\ proc[0].epochsRun # << >> =>
              /\ proc[0].pc \in {"check", "failed"}
              /\ proc[0].epochsRun =
                    <<[epoch |-> 0, batches |-> proc[0].steps]>>
              /\ proc[0].steps >= 1
              /\ proc[0].pc = "failed" =>
                    /\ proc[0].err = "ZeroDivisionError"
                    /\ proc[0].failedAt = "check"
        /\ \A p \in Ranks \ {0} :
              /\ proc[p].err # "ZeroDivisionError"
              /\ proc[p].failedAt # "check"
              /\ proc[p].epoch <= 1
              /\ proc[p].epoch = 1 =>
                    /\ proc[p].steps = proc[p].epochsRun[1].batches
                    /\ proc[p].pc \in
                          {"peek", "set_epoch", "iter", "next", "batch_wait"}

\* rank 0 has failed after epoch 0 and another rank waits in the first
\* batch step of epoch 1, which rank 0 has not entered
C9_Witness ==
    /\ args.save_every = 0
    /\ args.total_epochs >= 2
    /\ proc[0].pc = "failed"
    /\ proc[0].err = "ZeroDivisionError"
    /\ \E p \in Ranks \ {0} :
          /\ proc[p].pc = "batch_wait"
          /\ proc[p].epoch = 1
          /\ proc[0].entered < proc[p].entered

\* C10: every checkpoint goes to the one path checkpoint.pt and replaces
\* the one before.  When train returns on rank 0 with max_epochs >= 1 and
\* save_every >= 1, the file holds the model as of the end of epoch
\* save_every * floor((max_epochs - 1) / save_every); that is the state
\* after the last epoch exactly when (max_epochs - 1) % save_every = 0.
C10_LastCheckpoint ==
    /\ \A i \in 1..Len(saves) : saves[i].path = "checkpoint.pt"
    /\ files = IF saves = << >> THEN NoFile
               ELSE [epoch |-> saves[Len(saves)].epoch,
                     steps |-> saves[Len(saves)].steps]
    /\ (proc[0].returned /\ args.total_epochs >= 1 /\ args.save_every >= 1)
          => LET last == args.save_every *
                             ((args.total_epochs - 1) \div args.save_every)
             IN  /\ files.epoch = last
                 /\ files.steps = BatchesOf(proc[0].epochsRun, last + 1)
                 /\ files.steps = proc[0].steps
                       <=> (args.total_epochs - 1) % args.save_every = 0
                 /\ args = DefaultArgs => files.epoch = 5

\* train has returned and the file is the checkpoint of an earlier epoch
\* than the last one run: the updates of the later epochs are in no file
C10_Witness ==
    /\ proc[0].returned
    /\ args.save_every >= 2
    /\ Len(saves) >= 1
    /\ files.epoch < proc[0].epoch
    /\ files.steps < proc[0].steps

\* C3: train(max_epochs) runs the epochs 0, 1, ..., max_epochs - 1 on every
\* rank, each once and in increasing order, and then returns; for
\* max_epochs <= 0 it runs no epoch and saves nothing.  (The termination of
\* the loop is the part of the claim this safety statement leaves out.)
C3_RunsEveryEpochAndReturns ==
    \A p \in Ranks :
        LET run == EpochsOf(proc[p].epochsRun)
            all == EpochsUpTo(IF args.total_epochs > 0
                              THEN args.total_epochs ELSE 0)
        IN  /\ Len(run) <= Len(all)
            /\ \A i \in 1..Len(run) : run[i] = all[i]
            /\ args.total_epochs <= 0 => (run = << >> /\ saves = << >>)
            /\ (\/ proc[p].pc \in {"destroy", "done"}
                \/ proc[p].pc = "failed" /\ proc[p].failedAt \in InTrain)
                  => (proc[p].returned /\ run = all)

\* C8: in every epoch every rank runs len(train_data) =
\* ceil(ceil(N / W) / batch_size) batch steps, the batch-size peek taking
\* none of them, so that no rank waits in a batch step that another rank
\* never enters.
C8_SameBatchStepsOnEveryRank ==
    /\ \A p \in Ranks :
          \A i \in 1..Len(proc[p].epochsRun) :
              proc[p].epochsRun[i].batches = LenTrainData
    /\ \A p, q \in Ranks :
          ~ /\ proc[p].pc = "batch_wait"
            /\ proc[q].pc \in {"failed", "done"}
            /\ proc[q].entered < proc[p].entered

====
